---- MODULE Spec2Model ----
(***************************************************************************)
(* find-images (src/src/main.rs): Registry::populate / add_file / add_dir, *)
(* Registry::sort_by_modified, Registry::write_all and main, run against a *)
(* small fixed filesystem.                                                 *)
(*                                                                         *)
(* A file name is a sequence of bytes, each byte a one-element string      *)
(* ("LF" is the newline byte, "xFF" a byte that is not valid UTF-8); a     *)
(* path is a sequence of names.                                            *)
(***************************************************************************)
EXTENDS Integers, Sequences, FiniteSets, TLC

VARIABLES
    targets,            \* args.targets
    dohidden,           \* args.dohidden
    verbosity,          \* Registry.verbosity
    valid_extensions,   \* Registry.valid_extensions
    registry,           \* Registry.registry: sequence of (metadata, path)
    faults,             \* the filesystem calls that return Err during this run
    ti,                 \* populate: number of targets taken from source_paths
    stack,              \* add_dir: one frame per active call, innermost last
    diag,               \* lines written to stderr by eprintln!
    errs,               \* the Err results the run has received so far
    pc,                 \* position in main
    no_sort,            \* args.no_sort
    sep_null,           \* args.null as passed to write_all
    quote,              \* args.quote as passed to write_all
    buf,                \* BufWriter: bytes buffered, not yet handed to the sink
    out,                \* bytes the sink has accepted
    room,               \* bytes the sink still accepts before its writes fail (-1: no limit)
    wres,               \* result of write_all / of opening the sink
    sinkErr,            \* TRUE once a write to the sink has failed
    exitCode            \* process exit status

vars == <<targets, dohidden, verbosity, valid_extensions, registry, faults, ti,
          stack, diag, errs, pc, no_sort, sep_null, quote, buf, out, room, wres, sinkErr,
          exitCode>>

walkVars == <<targets, dohidden, verbosity, valid_extensions, registry, faults,
              ti, stack, diag, errs>>

outVars == <<sep_null, quote, buf, out, room, wres, sinkErr, exitCode>>

----------------------------------------------------------------------------
(* Bounds *)

MaxTargets == 2     \* number of command-line targets
MaxFaults  == 1     \* number of filesystem calls that fail in one run
MaxCount   == 1     \* occurrences of -v and of -q
BufCap     == 16    \* capacity of the BufWriter
SinkRoom   == 12    \* bytes a sink of limited room accepts

----------------------------------------------------------------------------
(* Names *)

R      == <<"r">>
S      == <<"s">>
O      == <<"o">>
L      == <<"l">>
HD     == <<".", "d">>
A_jpg  == <<"a", ".", "j", "p", "g">>
B_txt  == <<"b", ".", "t", "x", "t">>
H_png  == <<".", "h", ".", "p", "n", "g">>
DotPng == <<".", "p", "n", "g">>
C_PNG  == <<"c", ".", "P", "N", "G">>
M      == <<"m">>
X_bad  == <<"x", ".", "p", "xFF">>
C_png  == <<"c", ".", "p", "n", "g">>
K_png  == <<"k", ".", "p", "n", "g">>
N_png  == <<"n", "LF", ".", "p", "n", "g">>
F      == <<"f">>
D_png  == <<"d", ".", "p", "n", "g">>
E_png  == <<"e", ".", "p", "n", "g">>
Gone   == <<"g", ".", "p", "n", "g">>

PNG == <<"p", "n", "g">>
JPG == <<"j", "p", "g">>

\* -e/--extensions: the sets the runs are started with
ExtensionSets == { {PNG, JPG}, {PNG, <<"P", "N", "G">>, <<".", "p", "n", "g">>} }

----------------------------------------------------------------------------
(* The filesystem *)

Known(t) == [known |-> TRUE, t |-> t]
Unknown  == [known |-> FALSE, t |-> 0]

Dir(list)    == [kind |-> "dir", list |-> list, link |-> <<>>, mtime |-> Known(1)]
File(mtime)  == [kind |-> "file", list |-> <<>>, link |-> <<>>, mtime |-> mtime]
Symlink(to)  == [kind |-> "symlink", list |-> <<>>, link |-> to, mtime |-> Known(1)]
Fifo         == [kind |-> "other", list |-> <<>>, link |-> <<>>, mtime |-> Known(1)]
NoNode       == [kind |-> "none", list |-> <<>>, link |-> <<>>, mtime |-> Unknown]

\* r/{a.jpg, b.txt, .h.png, s/{c.png, k.png -> r/a.jpg, n\n.png, f}, .d/{d.png},
\*    l -> o, .png, c.PNG, m, x.p\xFF},  o/{e.png}
Nodes ==
       (<<R>>             :> Dir(<<A_jpg, B_txt, H_png, S, HD, L, DotPng, C_PNG, M, X_bad>>))
    @@ (<<R, A_jpg>>      :> File(Known(-1)))
    @@ (<<R, B_txt>>      :> File(Known(1)))
    @@ (<<R, H_png>>      :> File(Known(1)))
    @@ (<<R, S>>          :> Dir(<<C_png, K_png, N_png, F>>))
    @@ (<<R, S, C_png>>   :> File(Unknown))
    @@ (<<R, S, K_png>>   :> Symlink(<<R, A_jpg>>))
    @@ (<<R, S, N_png>>   :> File(Known(1)))
    @@ (<<R, S, F>>       :> Fifo)
    @@ (<<R, HD>>         :> Dir(<<D_png>>))
    @@ (<<R, HD, D_png>>  :> File(Known(0)))
    @@ (<<R, L>>          :> Symlink(<<O>>))
    @@ (<<R, DotPng>>     :> File(Known(1)))
    @@ (<<R, C_PNG>>      :> File(Known(1)))
    @@ (<<R, M>>          :> File(Known(1)))
    @@ (<<R, X_bad>>      :> File(Known(1)))
    @@ (<<O>>             :> Dir(<<E_png>>))
    @@ (<<O, E_png>>      :> File(Known(1)))

NodeAt(c) == IF c \in DOMAIN Nodes THEN Nodes[c] ELSE NoNode

\* Path resolution: `cur` is the directory reached so far, `rest` the names still
\* to look up; a symbolic link in the middle of a path is always followed, the
\* last name only when `follow` (stat) and not otherwise (lstat). <<>> = no such file.
RECURSIVE Resolve(_, _, _)
Resolve(cur, rest, follow) ==
    IF rest = <<>> THEN cur
    ELSE LET nxt == Append(cur, Head(rest))
             n   == NodeAt(nxt)
         IN  IF n.kind = "none" THEN <<>>
             ELSE IF n.kind = "symlink" /\ (Len(rest) > 1 \/ follow)
                  THEN Resolve(<<>>, n.link \o Tail(rest), follow)
             ELSE IF Len(rest) > 1 /\ n.kind # "dir" THEN <<>>
             ELSE Resolve(nxt, Tail(rest), follow)

\* std::fs::metadata (follows symbolic links) and std::fs::symlink_metadata
Stat(path)  == NodeAt(Resolve(<<>>, path, TRUE))
Lstat(path) == NodeAt(Resolve(<<>>, path, FALSE))

Metadata(node) == [kind |-> node.kind, mtime |-> node.mtime]

\* Path::is_file, Path::is_dir: metadata(path), false on error
IsFile(path) == Stat(path).kind = "file"
IsDir(path)  == Stat(path).kind = "dir"

----------------------------------------------------------------------------
(* Paths and names *)

Some(v) == [some |-> TRUE, v |-> v]
None    == [some |-> FALSE, v |-> <<>>]

\* Path::file_name: the last name, None when the path ends in ".."
FileName(path) ==
    IF path = <<>> \/ path[Len(path)] = <<".", ".">> THEN None
    ELSE Some(path[Len(path)])

\* index of the last "." of a name, 0 when it has none
LastDot(name) ==
    LET dots == {i \in 1..Len(name) : name[i] = "."}
    IN  IF dots = {} THEN 0 ELSE CHOOSE i \in dots : \A j \in dots : j <= i

\* variant: the name split at its first "." instead of its last
ExtensionAfterFirstDot(path) ==
    LET fn == FileName(path)
    IN  IF ~fn.some THEN None
        ELSE LET dots == {i \in 1..Len(fn.v) : fn.v[i] = "."}
             IN  IF dots = {} THEN None
                 ELSE LET d == CHOOSE i \in dots : \A j \in dots : i <= j
                      IN  Some(SubSeq(fn.v, d + 1, Len(fn.v)))

\* Path::extension: nothing for a name without ".", and nothing for a name
\* whose only "." is its first byte; otherwise the bytes after the last "."
Extension(path) ==
    LET fn == FileName(path)
    IN  IF ~fn.some THEN None
        ELSE LET d == LastDot(fn.v)
             IN  IF d <= 1 THEN None
                 ELSE Some(SubSeq(fn.v, d + 1, Len(fn.v)))

\* OsStr::to_str: the same bytes when they are valid UTF-8, else None
ToStr(bytes) ==
    IF \A i \in 1..Len(bytes) : bytes[i] # "xFF" THEN Some(bytes) ELSE None

\* OsStr::to_string_lossy: invalid bytes become U+FFFD
ToStringLossy(bytes) ==
    [i \in 1..Len(bytes) |-> IF bytes[i] = "xFF" THEN "uFFFD" ELSE bytes[i]]

\* variant: the test applied to the whole path instead of its file name
StartsWithDotOfPath(path) ==
    path # <<>> /\ path[1] # <<>> /\ ToStringLossy(path[1])[1] = "."

\* line 191: path.file_name().map(|name| name.to_string_lossy().starts_with('.')).unwrap_or(true)
StartsWithDot(path) ==
    LET fn == FileName(path)
    IN  IF fn.some
        THEN fn.v # <<>> /\ ToStringLossy(fn.v)[1] = "."
        ELSE TRUE

\* variant: membership that ignores case
Lower(b) ==
    CASE b = "P" -> "p" [] b = "N" -> "n" [] b = "G" -> "g" [] OTHER -> b

ContainsIgnoreCase(ext) ==
    \E v \in valid_extensions :
        [i \in 1..Len(v) |-> Lower(v[i])] = [i \in 1..Len(ext) |-> Lower(ext[i])]

\* line 150: self.valid_extensions.contains(ext)
Contains(ext) == ext \in valid_extensions

----------------------------------------------------------------------------
(* Diagnostics *)

Err(op, path) == [op |-> op, path |-> path]

\* variant: the match arms split at ..=0 / 1..
EmitsAbove(v) == v > 0

\* match self.verbosity { ..0 => (), 0.. => eprintln!(...) }
Emits(v) == v >= 0

\* an Err result arrives and is reported through the verbosity match
Report(w, e) ==
    [w EXCEPT !.errs = Append(@, e),
              !.diag = IF Emits(verbosity) THEN Append(@, e) ELSE @]

----------------------------------------------------------------------------
(* Registry::add_file *)

\* variant: the push repeated
PushTwice(w, md, path) ==
    [w EXCEPT !.registry = @ \o <<[md |-> md, path |-> path], [md |-> md, path |-> path]>>]

\* line 151: self.registry.push((metadata, path))
Push(w, md, path) ==
    [w EXCEPT !.registry = Append(@, [md |-> md, path |-> path])]

AddFile(w, path, md) ==
    LET osstr_ext == Extension(path)
    IN  IF ~osstr_ext.some THEN w
        ELSE LET ext == ToStr(osstr_ext.v)
             IN  IF ext.some
                 THEN IF Contains(ext.v) THEN Push(w, md, path) ELSE w
                 ELSE Report(w, Err("decode", path))

----------------------------------------------------------------------------
(* Registry::add_dir *)

Faulty(op, path) == Err(op, path) \in faults

\* std::fs::read_dir and the items its iterator yields
ReadDir(path) ==
    LET n == Stat(path)
    IN  IF Faulty("read_dir", path) \/ n.kind # "dir"
        THEN [ok |-> FALSE, entries |-> <<>>]
        ELSE [ok |-> TRUE,
              entries |-> [i \in 1..Len(n.list) |->
                             [ok   |-> ~Faulty("entry", Append(path, n.list[i])),
                              name |-> n.list[i]]]]

\* lines 166-175: the call of add_dir up to its loop
AddDir(w, path) ==
    LET rd == ReadDir(path)
    IN  IF rd.ok
        THEN [w EXCEPT !.stack = Append(@, [path |-> path, entries |-> rd.entries])]
        ELSE Report(w, Err("read_dir", path))

\* the loop moves to its next item
Advance(w) == [w EXCEPT !.stack[Len(w.stack)].entries = Tail(@)]

\* variant: break in place of continue
Break(w) == [w EXCEPT !.stack[Len(w.stack)].entries = <<>>]

\* lines 185, 202: continue
Continue(w) == Advance(w)

\* variant: std::fs::metadata, which follows symbolic links
EntryMetadataFollowing(path) == Metadata(Stat(path))

\* line 195: std::fs::symlink_metadata(&path)
EntryMetadata(path) == Metadata(Lstat(path))

\* lines 177-215: one iteration of the loop of the innermost add_dir
AddDirItem(w) ==
    LET fr   == w.stack[Len(w.stack)]
        e    == Head(fr.entries)
        path == Append(fr.path, e.name)
    IN  IF ~e.ok THEN Continue(Report(w, Err("entry", path)))
        ELSE IF ~dohidden /\ StartsWithDot(path) THEN Advance(w)
        ELSE IF Faulty("symlink_metadata", path)
             THEN Continue(Report(w, Err("symlink_metadata", path)))
        ELSE LET metadata == EntryMetadata(path)
             IN  IF metadata.kind = "symlink" THEN Advance(w)
                 ELSE IF IsFile(path) THEN AddFile(Advance(w), path, metadata)
                 ELSE IF IsDir(path) THEN AddDir(Advance(w), path)
                 ELSE Advance(w)

----------------------------------------------------------------------------
(* Registry::populate *)

\* lines 136-143: one iteration of the loop over source_paths
PopulateItem(w, path) ==
    IF IsFile(path)
    THEN IF Faulty("metadata", path)
         THEN [w EXCEPT !.errs = Append(@, Err("metadata", path))]
         ELSE AddFile(w, path, Metadata(Stat(path)))
    ELSE IF IsDir(path) THEN AddDir(w, path)
    ELSE w

W == [registry |-> registry, diag |-> diag, errs |-> errs, stack |-> stack]

Store(w) ==
    /\ registry' = w.registry
    /\ diag' = w.diag
    /\ errs' = w.errs
    /\ stack' = w.stack

PopulateTarget ==
    /\ pc = "populate"
    /\ stack = <<>>
    /\ ti < Len(targets)
    /\ Store(PopulateItem(W, targets[ti + 1]))
    /\ ti' = ti + 1
    /\ UNCHANGED <<targets, dohidden, verbosity, valid_extensions, faults, pc>>
    /\ UNCHANGED <<no_sort, outVars>>

AddDirEntry ==
    /\ pc = "populate"
    /\ stack # <<>>
    /\ stack[Len(stack)].entries # <<>>
    /\ Store(AddDirItem(W))
    /\ UNCHANGED <<targets, dohidden, verbosity, valid_extensions, faults, ti, pc>>
    /\ UNCHANGED <<no_sort, outVars>>

\* line 216: the loop of the innermost add_dir is over
AddDirReturn ==
    /\ pc = "populate"
    /\ stack # <<>>
    /\ stack[Len(stack)].entries = <<>>
    /\ stack' = SubSeq(stack, 1, Len(stack) - 1)
    /\ UNCHANGED <<targets, dohidden, verbosity, valid_extensions, registry,
                   faults, ti, diag, errs, pc>>
    /\ UNCHANGED <<no_sort, outVars>>

\* line 145: populate returns to main
PopulateReturn ==
    /\ pc = "populate"
    /\ stack = <<>>
    /\ ti = Len(targets)
    /\ pc' = "sort"
    /\ UNCHANGED walkVars
    /\ UNCHANGED <<no_sort, outVars>>

----------------------------------------------------------------------------
(* Registry::sort_by_modified *)

\* lines 129-131: md.modified().ok().unwrap_or_else(|| UNIX_EPOCH), as seconds
\* since the epoch (negative before 1970)
SortKey(md) == IF md.mtime.known THEN md.mtime.t ELSE 0

\* insert e after every element whose key is not larger (a stable insertion)
RECURSIVE InsertByKey(_, _)
InsertByKey(sorted, e) ==
    IF sorted = <<>> THEN <<e>>
    ELSE IF SortKey(e.md) < SortKey(Head(sorted).md)
         THEN <<e>> \o sorted
         ELSE <<Head(sorted)>> \o InsertByKey(Tail(sorted), e)

\* variant: sort_unstable_by_key, which may reorder entries of equal key
RECURSIVE InsertBeforeEqual(_, _)
InsertBeforeEqual(sorted, e) ==
    IF sorted = <<>> THEN <<e>>
    ELSE IF SortKey(e.md) <= SortKey(Head(sorted).md)
         THEN <<e>> \o sorted
         ELSE <<Head(sorted)>> \o InsertBeforeEqual(Tail(sorted), e)

RECURSIVE SortUnstable(_)
SortUnstable(seq) ==
    IF seq = <<>> THEN <<>>
    ELSE InsertBeforeEqual(SortUnstable(SubSeq(seq, 1, Len(seq) - 1)), seq[Len(seq)])

\* line 128: slice::sort_by_key, a stable sort
RECURSIVE SortByKey(_)
SortByKey(seq) ==
    IF seq = <<>> THEN <<>>
    ELSE InsertByKey(SortByKey(SubSeq(seq, 1, Len(seq) - 1)), seq[Len(seq)])

----------------------------------------------------------------------------
(* Registry::write_all through a BufWriter *)

Slash == <<"/">>

\* file.as_os_str().as_bytes(): the names joined by "/"
RECURSIVE PathBytes(_)
PathBytes(path) ==
    IF path = <<>> THEN <<>>
    ELSE IF Len(path) = 1 THEN path[1]
    ELSE path[1] \o Slash \o PathBytes(Tail(path))

\* bytes shlex leaves unquoted
Plain == {"a", "b", "c", "d", "e", "f", "g", "h", "j", "k", "l", "m", "n", "o",
          "p", "r", "s", "t", "x", "G", "N", "P", ".", "/"}

\* shlex::bytes::try_quote on bytes without NUL, "'", "\", "^", "!", "$", "`":
\* '' for the empty string, the bytes themselves when all are plain, else the
\* bytes between single quotes
TryQuote(bytes) ==
    IF bytes = <<>> THEN <<"'", "'">>
    ELSE IF \A i \in 1..Len(bytes) : bytes[i] \in Plain THEN bytes
    ELSE <<"'">> \o bytes \o <<"'">>

\* lines 118-121: the record written for one entry
Render(path, q) == IF q THEN TryQuote(PathBytes(path)) ELSE PathBytes(path)

\* variant: the two separators exchanged
SepSwapped(null) == IF null THEN "LF" ELSE "NUL"

\* line 116
Sep(null) == IF null THEN "NUL" ELSE "LF"

\* the sink takes `data` whole, or fails once its room is used up
SinkWrite(bw, data) ==
    IF bw.room = -1 \/ Len(data) <= bw.room
    THEN [bw EXCEPT !.out = @ \o data,
                    !.room = IF @ = -1 THEN -1 ELSE @ - Len(data)]
    ELSE [bw EXCEPT !.ok = FALSE, !.sinkErr = TRUE]

\* BufWriter::flush_buf
FlushBuf(bw) ==
    IF bw.buf = <<>> THEN bw
    ELSE LET r == SinkWrite(bw, bw.buf)
         IN  IF r.ok THEN [r EXCEPT !.buf = <<>>] ELSE r

\* BufWriter::write_all: into the buffer while it fits; a full buffer is flushed
\* first, and data as large as the buffer goes to the sink directly
BufWriteAll(bw, data) ==
    IF Len(data) < BufCap - Len(bw.buf)
    THEN [bw EXCEPT !.buf = @ \o data]
    ELSE LET f == IF Len(data) > BufCap - Len(bw.buf) THEN FlushBuf(bw) ELSE bw
         IN  IF ~f.ok THEN f
             ELSE IF Len(data) >= BufCap THEN SinkWrite(f, data)
             ELSE [f EXCEPT !.buf = @ \o data]

\* lines 118-122: one record and its separator, each write ending the loop on Err
WriteRecord(bw, path, null, q) ==
    LET r == BufWriteAll(bw, Render(path, q))
    IN  IF ~r.ok THEN r ELSE BufWriteAll(r, <<Sep(null)>>)

\* lines 117-124
RECURSIVE WriteLoop(_, _, _, _)
WriteLoop(bw, entries, null, q) ==
    IF entries = <<>> THEN bw
    ELSE LET r == WriteRecord(bw, Head(entries).path, null, q)
         IN  IF ~r.ok THEN r ELSE WriteLoop(r, Tail(entries), null, q)

----------------------------------------------------------------------------
(* main *)

\* line 77
SortByModified ==
    /\ pc = "sort"
    /\ no_sort' = FALSE
    /\ registry' = SortByKey(registry)
    /\ pc' = "output"
    /\ UNCHANGED <<targets, dohidden, verbosity, valid_extensions, faults, ti,
                   stack, diag, errs>>
    /\ UNCHANGED outVars

\* line 76: args.no_sort
SkipSort ==
    /\ pc = "sort"
    /\ no_sort' = TRUE
    /\ pc' = "output"
    /\ UNCHANGED walkVars
    /\ UNCHANGED outVars

\* lines 89-90: File::create fails and main returns the error
OpenFails ==
    /\ pc = "output"
    /\ wres' = "open_err"
    /\ exitCode' = 1
    /\ pc' = "done"
    /\ UNCHANGED walkVars
    /\ UNCHANGED <<no_sort, sep_null, quote, buf, out, room, sinkErr>>

\* lines 81-93: write_all into a new BufWriter around stdout or the created file
WriteAll ==
    /\ pc = "output"
    /\ \E null \in BOOLEAN, q \in BOOLEAN, rm \in {-1, 0, SinkRoom} :
         LET bw == WriteLoop([buf |-> <<>>, out |-> <<>>, room |-> rm,
                              ok |-> TRUE, sinkErr |-> FALSE],
                             registry, null, q)
         IN  /\ sep_null' = null
             /\ quote' = q
             /\ buf' = bw.buf
             /\ out' = bw.out
             /\ room' = bw.room
             /\ sinkErr' = bw.sinkErr
             /\ wres' = IF bw.ok THEN "ok" ELSE "err"
    /\ pc' = "written"
    /\ UNCHANGED walkVars
    /\ UNCHANGED <<no_sort, exitCode>>

\* lines 86, 93-96: the BufWriter is dropped, which flushes it and discards the
\* result; main returns what write_all returned
Exit ==
    /\ pc = "written"
    /\ LET bw == FlushBuf([buf |-> buf, out |-> out, room |-> room,
                           ok |-> TRUE, sinkErr |-> sinkErr])
       IN  /\ buf' = bw.buf
           /\ out' = bw.out
           /\ room' = bw.room
           /\ sinkErr' = bw.sinkErr
    /\ exitCode' = IF wres = "ok" THEN 0 ELSE 1
    /\ pc' = "done"
    /\ UNCHANGED walkVars
    /\ UNCHANGED <<no_sort, sep_null, quote, wres>>

----------------------------------------------------------------------------
(* Runs *)

\* TARGET arguments
TargetPaths == {<<R>>, <<R, HD>>, <<R, L>>, <<R, A_jpg>>, <<Gone>>}

\* calls that may fail
Faults == {Err("read_dir", <<R, S>>), Err("read_dir", <<R, HD>>),
           Err("entry", <<R, B_txt>>), Err("symlink_metadata", <<R, A_jpg>>),
           Err("metadata", <<R, A_jpg>>)}

\* lines 54-56
Verbosity(verbose, quiet) == verbose - quiet

InitRegistry ==
    /\ registry = <<>>
    /\ ti = 0
    /\ stack = <<>>
    /\ diag = <<>>
    /\ errs = <<>>
    /\ pc = "populate"
    /\ no_sort = FALSE
    /\ sep_null = FALSE
    /\ quote = FALSE
    /\ buf = <<>>
    /\ out = <<>>
    /\ room = -1
    /\ wres = "ok"
    /\ sinkErr = FALSE
    /\ exitCode = 0

\* populate under every configuration
Init ==
    /\ \E n \in 1..MaxTargets : targets \in [1..n -> TargetPaths]
    /\ dohidden \in BOOLEAN
    /\ \E verbose \in 0..MaxCount, quiet \in 0..MaxCount :
         verbosity = Verbosity(verbose, quiet)
    /\ valid_extensions \in ExtensionSets
    /\ faults \in {fs \in SUBSET Faults : Cardinality(fs) <= MaxFaults}
    /\ InitRegistry

\* whole runs with the default verbosity and extensions
InitMain ==
    /\ \E n \in 1..MaxTargets : targets \in [1..n -> TargetPaths]
    /\ dohidden \in BOOLEAN
    /\ verbosity = Verbosity(0, 0)
    /\ valid_extensions = {PNG, JPG}
    /\ faults \in {fs \in SUBSET Faults : Cardinality(fs) <= MaxFaults}
    /\ InitRegistry

Next ==
    \/ PopulateTarget
    \/ AddDirEntry
    \/ AddDirReturn
    \/ PopulateReturn

NextMain ==
    \/ PopulateTarget
    \/ AddDirEntry
    \/ AddDirReturn
    \/ PopulateReturn
    \/ SortByModified
    \/ SkipSort
    \/ OpenFails
    \/ WriteAll
    \/ Exit

Spec == Init /\ [][Next]_vars

SpecMain == InitMain /\ [][NextMain]_vars

----------------------------------------------------------------------------
(* Vocabulary of the properties *)

IsPrefix(a, b) == Len(a) <= Len(b) /\ SubSeq(b, 1, Len(a)) = a

IsStrictPrefix(a, b) == Len(a) < Len(b) /\ SubSeq(b, 1, Len(a)) = a

Paths(reg) == [i \in 1..Len(reg) |-> reg[i].path]

Count(x, seq) == Cardinality({i \in 1..Len(seq) : seq[i] = x})

RECURSIVE Concat(_)
Concat(seqs) == IF seqs = <<>> THEN <<>> ELSE Head(seqs) \o Concat(Tail(seqs))

\* the name may not begin with "."
Dotted(name) == name # <<>> /\ name[1] = "."

\* the text after the last "." of a name that has one
TextAfterLastDot(name) == SubSeq(name, LastDot(name) + 1, Len(name))

ValidText(bytes) == \A i \in 1..Len(bytes) : bytes[i] # "xFF"

\* the targets populate has taken so far
Taken == {targets[i] : i \in 1..ti}

\* the names of path p below target t
NamesBelow(t, p) == {p[k] : k \in (Len(t) + 1)..Len(p)}

\* the directories add_dir has been called on: the active calls and the calls
\* that ended at once because read_dir failed
AddDirCalls ==
    {stack[i].path : i \in 1..Len(stack)}
        \cup {errs[i].path : i \in {j \in 1..Len(errs) : errs[j].op = "read_dir"}}

----------------------------------------------------------------------------
\* C1: every Registry entry's path has an extension (the text after the last "."
\* of its final name) that is valid text and a member of the extension set,
\* compared exactly; a file without extension or with one outside the set is
\* never in the Registry.
C1_ExtensionInSet ==
    \A i \in 1..Len(registry) :
        LET name == registry[i].path[Len(registry[i].path)]
        IN  /\ LastDot(name) > 0
            /\ ValidText(TextAfterLastDot(name))
            /\ TextAfterLastDot(name) \in valid_extensions

\* populate is over having taken a directory holding files with and without an
\* accepted extension, and an explicit file target
C1_Witness ==
    /\ pc = "sort"
    /\ <<R>> \in Taken
    /\ <<R, A_jpg>> \in Taken
    /\ dohidden
    /\ faults = {}
    /\ Len(registry) >= 3

----------------------------------------------------------------------------
\* C2: no symbolic link found during descent is ever in the Registry, and add_dir
\* is never called on a directory reached from its target through a symbolic link.
C2_NoSymlinks ==
    /\ \A i \in 1..Len(registry) :
          LET p == registry[i].path
          IN  \E t \in Taken :
                /\ IsPrefix(t, p)
                /\ \/ p = t
                   \/ /\ Lstat(p).kind = "file"
                      /\ registry[i].md.kind = "file"
                      /\ \A k \in (Len(t) + 1)..(Len(p) - 1) :
                            Lstat(SubSeq(p, 1, k)).kind = "dir"
    /\ \A p \in AddDirCalls :
          \E t \in Taken :
                /\ IsPrefix(t, p)
                /\ \A k \in (Len(t) + 1)..Len(p) : Lstat(SubSeq(p, 1, k)).kind = "dir"

\* a walk of r, which holds the links r/l (to a directory) and r/s/k.png (to an
\* accepted file), has gone through both directories
C2_Witness ==
    /\ pc = "sort"
    /\ targets = <<<<R>>>>
    /\ faults = {}
    /\ \E i \in 1..Len(registry) : registry[i].path = <<R, S, C_png>>
    /\ \E i \in 1..Len(registry) : registry[i].path = <<R, A_jpg>>

----------------------------------------------------------------------------
\* C3: with dohidden = FALSE no Registry entry has a name beginning with "." below
\* its target, no add_dir call is on such a directory, and only the names of the
\* target paths themselves may begin with ".".
C3_NoHidden ==
    ~dohidden =>
        /\ \A i \in 1..Len(registry) :
              \E t \in Taken :
                  /\ IsPrefix(t, registry[i].path)
                  /\ \A n \in NamesBelow(t, registry[i].path) : ~Dotted(n)
        /\ \A p \in AddDirCalls :
              \E t \in Taken :
                  /\ IsPrefix(t, p)
                  /\ \A n \in NamesBelow(t, p) : ~Dotted(n)

\* r and the hidden target r/.d have been walked without hidden entries: the
\* file of r/.d is registered under the target's own dotted name
C3_Witness ==
    /\ pc = "sort"
    /\ ~dohidden
    /\ <<R>> \in Taken
    /\ <<R, HD>> \in Taken
    /\ faults = {}
    /\ \E i \in 1..Len(registry) : registry[i].path = <<R, HD, D_png>>
    /\ \E i \in 1..Len(registry) : registry[i].path = <<R, S, C_png>>

----------------------------------------------------------------------------
\* C6 as stated: each path appears in the Registry at most once, whatever the
\* targets.
C6_AtMostOnce ==
    \A i, j \in 1..Len(registry) :
        registry[i].path = registry[j].path => i = j

\* C6 as the code has it: a path appears at most once for each target that is
\* the path itself or a directory above it, so at most once when the targets do
\* not overlap.
C6_OncePerTarget ==
    \A i \in 1..Len(registry) :
        Count(registry[i].path, Paths(registry))
            <= Cardinality({k \in 1..ti : IsPrefix(targets[k], registry[i].path)})

\* r and the file r/a.jpg inside it were both targets: r/a.jpg is there twice
C6_Witness ==
    /\ pc = "sort"
    /\ <<R>> \in Taken
    /\ <<R, A_jpg>> \in Taken
    /\ Count(<<R, A_jpg>>, Paths(registry)) = 2
    /\ Count(<<R, S, C_png>>, Paths(registry)) = 1

----------------------------------------------------------------------------
\* a name with an accepted extension, a name whose only "." is its first byte
\* having none
Accepted(name) ==
    /\ LastDot(name) > 1
    /\ ValidText(TextAfterLastDot(name))
    /\ TextAfterLastDot(name) \in valid_extensions

\* the reference set of directory target t: the regular files below it that are
\* reached through directories only (no symbolic link on the way, none at the
\* end), through no dotted name unless dohidden, and that have an accepted
\* extension
Reference(t) ==
    LET top  == Resolve(<<>>, t, TRUE)
        hits == {c \in DOMAIN Nodes :
                    /\ IsStrictPrefix(top, c)
                    /\ Nodes[c].kind = "file"
                    /\ \A k \in (Len(top) + 1)..(Len(c) - 1) :
                          Nodes[SubSeq(c, 1, k)].kind = "dir"
                    /\ dohidden \/ \A n \in NamesBelow(top, c) : ~Dotted(n)
                    /\ Accepted(c[Len(c)])}
    IN  {t \o SubSeq(c, Len(top) + 1, Len(c)) : c \in hits}

----------------------------------------------------------------------------
\* what populate registers for directory `dir` and for entry `p` of a directory
\* when no call fails, in listing order
RECURSIVE WalkDir(_), WalkEntry(_)
WalkDir(dir) ==
    LET list == Stat(dir).list
    IN  Concat([i \in 1..Len(list) |-> WalkEntry(Append(dir, list[i]))])
WalkEntry(p) ==
    IF ~dohidden /\ Dotted(p[Len(p)]) THEN <<>>
    ELSE IF Lstat(p).kind = "file"
         THEN IF Accepted(p[Len(p)]) THEN <<p>> ELSE <<>>
    ELSE IF Lstat(p).kind = "dir" THEN WalkDir(p)
    ELSE <<>>

WalkTarget(t) ==
    IF IsFile(t) THEN IF Accepted(t[Len(t)]) THEN <<t>> ELSE <<>>
    ELSE IF IsDir(t) THEN WalkDir(t)
    ELSE <<>>

\* path p, found from target t, lies behind a call that fails: a directory that
\* cannot be listed, an entry that cannot be read or whose metadata cannot be
\* fetched, or the target file itself
Lost(t, p) ==
    \E f \in faults :
        \/ f.op = "read_dir" /\ IsPrefix(t, f.path) /\ IsStrictPrefix(f.path, p)
        \/ /\ f.op \in {"entry", "symlink_metadata"}
           /\ IsStrictPrefix(t, f.path)
           /\ IsPrefix(f.path, p)
        \/ f.op = "metadata" /\ f.path = t /\ p = t

Kept(t) ==
    LET all == WalkTarget(t)
        idx == {i \in 1..Len(all) : ~Lost(t, all[i])}
        Nth(k) == CHOOSE i \in idx : Cardinality({j \in idx : j <= i}) = k
    IN  [k \in 1..Cardinality(idx) |-> all[Nth(k)]]

\* C8: a failed listing, entry or metadata call loses only what lies behind it:
\* the Registry always holds, in order, what the failure-free walk of the targets
\* taken so far registers minus the lost paths (entries already registered stay),
\* and when populate returns every target has been taken.
C8_OnlyFailedSkipped ==
    LET want == Concat([i \in 1..ti |-> Kept(targets[i])])
    IN  /\ IsPrefix(Paths(registry), want)
        /\ stack = <<>> => Paths(registry) = want
        /\ pc # "populate" => ti = Len(targets)

\* a call failed during the descent of r and files found after it are registered
C8_Witness ==
    /\ pc = "sort"
    /\ targets[1] = <<R>>
    /\ \E i \in 1..Len(errs) : errs[i].op \in {"read_dir", "entry", "symlink_metadata"}
    /\ \E i \in 1..Len(registry) : registry[i].path = <<R, S, C_png>>
    /\ ti = Len(targets)

----------------------------------------------------------------------------
\* C10 as stated: every traversal error, the metadata of an explicit file target
\* included, and every decode error is reported if and only if verbosity >= 0; the
\* file with the undecodable extension is never registered; nothing else is
\* reported.
C10_AllErrorsReported ==
    /\ diag = IF verbosity >= 0 THEN errs ELSE <<>>
    /\ \A i \in 1..Len(registry) : ValidText(registry[i].path[Len(registry[i].path)])

\* C10 as the code has it: the errors of the descent (listing, entry, entry
\* metadata) and the decode errors are reported if and only if verbosity >= 0; a
\* failure to fetch the metadata of an explicit file target is reported at no
\* verbosity; the file with the undecodable extension is never registered;
\* nothing else is reported.
C10_DescentErrorsReported ==
    LET descent == {i \in 1..Len(errs) : errs[i].op # "metadata"}
        Nth(k)  == CHOOSE i \in descent : Cardinality({j \in descent : j <= i}) = k
        shown   == [k \in 1..Cardinality(descent) |-> errs[Nth(k)]]
    IN  /\ diag = IF verbosity >= 0 THEN shown ELSE <<>>
        /\ \A i \in 1..Len(registry) :
              ValidText(registry[i].path[Len(registry[i].path)])

\* the metadata of target r/a.jpg could not be fetched, r held a file with an
\* undecodable extension, a file without extension and the target g.png did not
\* exist: one line was printed
C10_Witness ==
    /\ pc = "sort"
    /\ verbosity = 0
    /\ \E i \in 1..Len(errs) : errs[i] = Err("metadata", <<R, A_jpg>>)
    /\ \E i \in 1..Len(errs) : errs[i] = Err("decode", <<R, X_bad>>)
    /\ Len(diag) = 1

----------------------------------------------------------------------------
\* the last-modified time an entry is ordered by: its own, the epoch start (0)
\* when it is unknown
TimeOf(e) == IF e.md.mtime.known THEN e.md.mtime.t ELSE 0

NonDecreasing(reg) ==
    \A i, j \in 1..Len(reg) : i < j => TimeOf(reg[i]) <= TimeOf(reg[j])

\* the entries of reg with time k, in the order reg has them
AtTime(reg, k) == SelectSeq(reg, LAMBDA e : TimeOf(e) = k)

\* after has the entries of before, those of equal time in their order of before
StablePermutation(before, after) ==
    /\ Len(after) = Len(before)
    /\ \A k \in {TimeOf(before[i]) : i \in 1..Len(before)}
             \cup {TimeOf(after[i]) : i \in 1..Len(after)} :
          AtTime(after, k) = AtTime(before, k)

\* nothing of another time stands before an entry of unknown time
UnknownFirst(reg) ==
    \A i, j \in 1..Len(reg) :
        (i < j /\ ~reg[j].md.mtime.known) => TimeOf(reg[i]) = 0

\* nothing of a later time stands before an entry of unknown time, and nothing of
\* a time before the epoch stands after it
UnknownAtEpoch(reg) ==
    \A i, j \in 1..Len(reg) :
        /\ (i < j /\ ~reg[j].md.mtime.known) => TimeOf(reg[i]) <= 0
        /\ (i < j /\ ~reg[i].md.mtime.known) => TimeOf(reg[j]) >= 0

\* what write_all has handed to its writer
Written == out \o buf

\* the records of the Registry, in its order, each followed by the separator
Records(sepChar) ==
    Concat([i \in 1..Len(registry) |->
              Render(registry[i].path, quote) \o <<sepChar>>])

SortStep == pc = "sort" /\ pc' = "output" /\ ~no_sort'

WriteStep == pc = "output" /\ pc' = "written" /\ ~no_sort' /\ wres' = "ok"

\* C4 as stated: the sort is a stable reordering into non-decreasing time with
\* unknown times taken as the epoch start, the entries of unknown time come
\* first, and write_all emits the paths in that order.
C4_SortedUnknownFirst ==
    [][/\ SortStep => /\ NonDecreasing(registry')
                      /\ StablePermutation(registry, registry')
                      /\ UnknownFirst(registry')
       /\ WriteStep => /\ NonDecreasing(registry')
                       /\ Written' = Records(IF sep_null THEN "NUL" ELSE "LF")'
      ]_vars

\* C4 as the code has it: the sort is a stable reordering into non-decreasing
\* time with unknown times taken as the epoch start, so the entries of unknown
\* time come before every entry modified after the epoch and after every entry
\* modified before it, and write_all emits the paths in that order.
C4_SortedUnknownAtEpoch ==
    [][/\ SortStep => /\ NonDecreasing(registry')
                      /\ StablePermutation(registry, registry')
                      /\ UnknownAtEpoch(registry')
       /\ WriteStep => /\ NonDecreasing(registry')
                       /\ Written' = Records(IF sep_null THEN "NUL" ELSE "LF")'
      ]_vars

\* sorted and written: r/a.jpg (before the epoch), then r/s/c.png (unknown) and
\* r/.d/d.png (at the epoch) in discovery order, then two files of equal time
C4_Witness ==
    /\ pc = "written"
    /\ ~no_sort
    /\ wres = "ok"
    /\ Paths(registry) = <<<<R, A_jpg>>, <<R, S, C_png>>, <<R, HD, D_png>>,
                           <<R, H_png>>, <<R, S, N_png>>>>

----------------------------------------------------------------------------
HasNewline(path) == \E k \in 1..Len(path) : \E i \in 1..Len(path[k]) : path[k][i] = "LF"

\* C5 as stated: after a successful write_all over N entries the output holds
\* exactly N separator bytes, one right after each record and none elsewhere.
C5_ExactlyNSeparators ==
    (pc = "written" /\ wres = "ok") =>
        LET sepChar == IF sep_null THEN "NUL" ELSE "LF"
        IN  /\ Written = Records(sepChar)
            /\ Count(sepChar, Written) = Len(registry)

\* C5 as the code has it: after a successful write_all over N entries the output
\* is the N records each followed by one separator byte; it holds exactly N
\* separator bytes when the separator is NUL or no registered path contains a
\* newline, and more than N otherwise.
C5_SeparatorAfterEachRecord ==
    (pc = "written" /\ wres = "ok") =>
        LET sepChar == IF sep_null THEN "NUL" ELSE "LF"
            clean   == sep_null \/ \A i \in 1..Len(registry) : ~HasNewline(registry[i].path)
        IN  /\ Written = Records(sepChar)
            /\ clean => Count(sepChar, Written) = Len(registry)
            /\ ~clean => Count(sepChar, Written) > Len(registry)

\* write_all succeeded with NUL separators and quoting over several entries, one
\* of them with a newline in its name
C5_Witness ==
    /\ pc = "written"
    /\ wres = "ok"
    /\ sep_null
    /\ quote
    /\ Len(registry) >= 3
    /\ \E i \in 1..Len(registry) : HasNewline(registry[i].path)
    /\ Count("NUL", Written) = Len(registry)

----------------------------------------------------------------------------
\* C9: the process exits non-zero if and only if the sink could not be opened or
\* a write to it failed, a failure at the final flush included.
C9_ExitReflectsOutput ==
    pc = "done" => (exitCode # 0 <=> (wres = "open_err" \/ sinkErr))

====
